---- MODULE Spec2Model ----
(***************************************************************************)
(* Process lifecycle management and scheduling of the rusteze kernel.      *)
(*                                                                         *)
(* Four parts of the source are modelled:                                  *)
(*   - src/process_manager.rs : ProcessManager over an indexed process     *)
(*     list (processes, current_index, next_pid): init, spawn, exit, reap, *)
(*     process_count, get_current.                                         *)
(*   - src/src/process.rs : RoundRobinScheduler / ProcessManager over a    *)
(*     ready queue from which the selected PCB is removed.                 *)
(*   - src/src/process.rs : ContextSwitcher save / restore / switch_to.    *)
(*   - src/src/pit.rs, src/idt.rs, src/src/idt.rs : the timer interrupt   *)
(*     handlers, get_ticks, and the interrupt flag around exit.            *)
(* Indices are 0-based as in the Rust code; sequences are 1-based, so the  *)
(* element at Rust index i is s[i + 1].                                    *)
(***************************************************************************)
EXTENDS Integers, Sequences, FiniteSets, TLC

\* ---------------------------------------------------------------- bounds
\* Largest value the PID counter may reach in the model.
MaxPid == 4
\* Largest length of the process list in the model.
MaxProcs == 3
\* Largest length of a queue content drawn by InitQueue.
MaxInitLen == 3
\* Largest length of the ready queue of process.rs in the model.
MaxQueue == 3
\* Largest PID of a PCB handed to add_process in the model.
MaxSchedPid == 2
\* Largest number of consecutive get_next_process calls recorded in picks.
MaxPicks == 5
\* Largest number of consecutive switch_to calls in the model.
MaxSwitches == 3
\* Largest number of timer interrupts one handler takes in the model.
MaxTicks == 4

\* ------------------------------------------------- process_manager.rs state
VARIABLES
    processes,      \* scheduler.processes : Vec<ProcessControlBlock>
    current_index,  \* scheduler.current_index
    next_pid,       \* ProcessManager.next_pid
    panicked,       \* TRUE once a panic!() has halted the kernel
    pm_last,        \* the last ProcessManager call: name, argument, results, pre-state
    returned,       \* PIDs returned by spawn_kernel_thread since the last init()
    issued          \* issued[p]: how often spawn_kernel_thread returned p since boot (2: more than once)

\* --------------------------------------------------------- process.rs state
VARIABLES
    current_pcb,      \* ProcessManager.current_pcb : Option<PCB>, <<>> is None
    current_process,  \* RoundRobinScheduler.current_process : Option<PCB>
    ready_queue,      \* RoundRobinScheduler.ready_queue : Vec<PCB>
    sc_last,          \* the last call on the process.rs manager
    base_queue,       \* ready_queue as the last add_process / init left it
    base_pcb,         \* current_pcb as the last add_process / init left it
    picks             \* results of the get_next_process calls made since then

\* ------------------------------------------------ ContextSwitcher state
VARIABLES
    cpu,        \* the register file of the CPU
    saved,      \* saved[p]: the register fields stored in the PCB with pid p
    running,    \* pid of the unit the CPU executes
    sw_start,   \* cpu and running before the first switch_to
    sw_trace,   \* the pids switch_to was called with, in order
    sw_halted   \* TRUE once control was lost inside a switch

\* ------------------------------------------------------ timer interrupt state
VARIABLES
    handler_ticks,  \* static mut TICKS of handle_timer_interrupt (pit.rs)
    reader_ticks,   \* static mut TICKS of get_ticks (pit.rs)
    timer_ticks,    \* crate::TIMER_TICKS, counted by timer_interrupt_handler of src/idt.rs
    irq_trace,      \* what the last timer interrupt handler did, in order
    irq_handled,    \* timer interrupts handled by handle_timer_interrupt since boot
    tm_last,        \* the last timer call: name and returned value
    int_enabled,    \* RFLAGS.IF: maskable interrupts are delivered
    in_exit,        \* <<>>, or the exit call that has stored Zombie and not yet updated the cursor
    irq_in_op       \* in_exit as the last timer interrupt found it

pm_vars == <<processes, current_index, next_pid, panicked, pm_last, returned,
            issued>>

sched_vars == <<current_pcb, current_process, ready_queue, sc_last, base_queue, base_pcb,
               picks>>

sw_vars == <<cpu, saved, running, sw_start, sw_trace, sw_halted>>

tm_vars == <<handler_ticks, reader_ticks, timer_ticks, irq_trace, irq_handled, tm_last,
            int_enabled, in_exit, irq_in_op>>

vars == <<pm_vars, sched_vars, sw_vars, tm_vars>>

\* enum ProcessState of process_manager.rs
ProcessState == {"Ready", "Running", "Blocked", "Zombie", "Terminated"}

\* Result of a scan that found nothing (found_next_process = false).
NotFound == 0 - 1

\* The PCB a constructor without arguments yields: pid 0, state Ready.
\* spawn_kernel_thread never writes pcb.pid afterwards.
PcbDefault == [pid |-> 0, state |-> "Ready"]

\* Vec::is_empty
IsEmpty(s) == Len(s) = 0

\* Vec::remove(i) with a 0-based index i
RemoveAt(s, i) == [k \in 1..(Len(s) - 1) |-> IF k <= i THEN s[k] ELSE s[k + 1]]

\* A record of one ProcessManager call.
CallRecord(op, arg, pre, pre_index, pre_next) ==
    [op |-> op, arg |-> arg, pre |-> pre, pre_index |-> pre_index,
     pre_next |-> pre_next, ret_pid |-> NotFound, ret_ok |-> FALSE,
     ret_pids |-> <<>>, ret_count |-> 0, ret_pcb |-> <<>>]

\* ProcessManager::new of process_manager.rs
PmNew ==
    /\ processes = <<>>
    /\ current_index = 0
    /\ next_pid = 1
    /\ panicked = FALSE
    /\ pm_last = CallRecord("new", 0, <<>>, 0, 1)
    /\ returned = <<>>
    /\ issued = [p \in 1..MaxPid |-> 0]

\* ---------------------------------------------------------------- process.rs
\* enum ProcessState of process.rs
SchedProcessState == {"Ready", "Running", "Blocked", "Zombie"}

\* Values of the saved-register part of a PCB (rsp, rip, rax, ..., ss taken together).
CtxValues == {0, 1}

\* ProcessControlBlock::default()
ProcessControlBlockDefault == [pid |-> 0, state |-> "Ready", ctx |-> 0]

\* A record of one call on the process.rs manager; pre_current is the
\* scheduler's current_process before the call.
SchedCall(op, arg, ret, pre_queue, pre_pcb) ==
    [op |-> op, arg |-> arg, ret |-> ret, pre_queue |-> pre_queue, pre_pcb |-> pre_pcb,
     pre_current |-> current_process]

\* ProcessManager::new and RoundRobinScheduler::new of process.rs
SchedNew ==
    /\ current_pcb = <<>>
    /\ current_process = <<>>
    /\ ready_queue = <<>>
    /\ sc_last = SchedCall("new", <<>>, <<>>, <<>>, <<>>)
    /\ base_queue = <<>>
    /\ base_pcb = <<>>
    /\ picks = <<>>

\* ------------------------------------------------------- ContextSwitcher
\* The register fields of a ProcessControlBlock / of the CPU.
GpRegs == {"rax", "rbx", "rcx", "rdx", "rsi", "rdi"}
SegRegs == {"cs", "ds", "es", "fs", "gs", "ss"}
RegNames == GpRegs \cup {"rbp", "rsp", "rip"} \cup SegRegs

\* The fields save_context writes into the PCB (rbp is not among them).
SavedRegs == GpRegs \cup {"rsp", "rip"} \cup SegRegs

\* The fields restore_context loads from the PCB.
RestoredRegs == GpRegs \cup {"rsp", "rip"}

\* The register fields of ProcessControlBlock::default(): all zero.
ZeroRegs == [r \in RegNames |-> 0]

\* Register files of the model: one value per group of registers.
RegValues == {1, 2}

RegFiles ==
    { [r \in RegNames |-> IF r \in GpRegs \cup {"rsp", "rip"} THEN g
                          ELSE IF r \in SegRegs THEN sg ELSE bp] :
        g \in RegValues, sg \in RegValues, bp \in RegValues }

\* The pids of the two PCBs of test_context_switch.
SwitchPids == {1, 2}

\* A CPU running one of two units, each with a PCB holding saved registers.
SwitchInit ==
    /\ cpu \in RegFiles
    /\ saved \in [SwitchPids -> RegFiles]
    /\ running \in SwitchPids
    /\ sw_start = [cpu |-> cpu, running |-> running]
    /\ sw_trace = <<>>
    /\ sw_halted = FALSE

\* The context switcher at rest, for the specifications of the managers.
SwitchIdle ==
    /\ cpu = ZeroRegs
    /\ saved = [p \in SwitchPids |-> ZeroRegs]
    /\ running = 1
    /\ sw_start = [cpu |-> ZeroRegs, running |-> 1]
    /\ sw_trace = <<>>
    /\ sw_halted = FALSE

\* ContextSwitcher::save_context: the PCB after the capture.
SaveContext(pcb, regs) == [r \in RegNames |-> IF r \in SavedRegs THEN regs[r] ELSE pcb[r]]

\* ContextSwitcher::restore_context: the register file after the load and jump.
RestoreContext(regs, pcb) == [r \in RegNames |-> IF r \in RestoredRegs THEN pcb[r] ELSE regs[r]]

\* ContextSwitcher::switch_to(&saved[pid]). save_context is declared `-> !`
\* and its asm block is `noreturn`, so whether control comes back from it
\* (returns) is not defined by the language; both outcomes are modelled.
SwitchTo(pid, returns) ==
    /\ ~sw_halted
    /\ Len(sw_trace) < MaxSwitches
    /\ sw_trace' = Append(sw_trace, pid)
    /\ IF returns
       THEN LET current_pcb_tmp == SaveContext(ZeroRegs, cpu)
            IN /\ cpu' = RestoreContext(cpu, saved[pid])
               /\ running' = pid
               /\ UNCHANGED <<saved, sw_halted>>
       ELSE /\ sw_halted' = TRUE
            /\ UNCHANGED <<cpu, saved, running>>
    /\ UNCHANGED sw_start
    /\ UNCHANGED <<pm_vars, sched_vars, tm_vars>>

NextSwitch == \E pid \in SwitchPids, returns \in BOOLEAN : SwitchTo(pid, returns)

\* The timer statics at boot: both TICKS statics and TIMER_TICKS are 0;
\* interrupts are off until idt::initialize.
TimerBoot ==
    /\ handler_ticks = 0
    /\ reader_ticks = 0
    /\ timer_ticks = 0
    /\ irq_trace = <<>>
    /\ irq_handled = 0
    /\ tm_last = [op |-> "boot", ret |-> 0]
    /\ int_enabled = FALSE
    /\ in_exit = <<>>
    /\ irq_in_op = <<>>

\* Both managers as constructed.
Init == PmNew /\ SchedNew /\ SwitchIdle /\ TimerBoot

\* The context switcher about to be exercised, the managers as constructed.
InitSwitch == PmNew /\ SchedNew /\ SwitchInit /\ TimerBoot

SpecSwitch == InitSwitch /\ [][NextSwitch]_vars

\* ProcessManager::init
PmInit ==
    /\ ~panicked
    /\ next_pid' = 1
    /\ processes' = <<>>
    /\ pm_last' = CallRecord("init", 0, processes, current_index, next_pid)
    /\ returned' = <<>>
    /\ UNCHANGED issued
    /\ UNCHANGED <<current_index, panicked>>
    /\ UNCHANGED <<sched_vars, sw_vars, tm_vars>>

\* A counter that is read but never advanced.
BumpPid_stuck(n) == n

\* The PID counter after one allocation (self.next_pid += 1). next_pid is a
\* u32; the guard next_pid < MaxPid of spawn keeps the model below its overflow.
BumpPid(n) == n + 1

\* The state spawn_kernel_thread stores in the new PCB.
SpawnState == "Running"

\* ProcessManager::spawn_kernel_thread; alloc_ok is the outcome of allocate_kernel_stack.
SpawnKernelThread(alloc_ok) ==
    /\ ~panicked
    /\ UNCHANGED <<sched_vars, sw_vars, tm_vars>>
    /\ next_pid < MaxPid
    /\ Len(processes) < MaxProcs
    /\ IF ~alloc_ok
       THEN /\ panicked' = TRUE
            /\ pm_last' = CallRecord("spawn", 0, processes, current_index, next_pid)
            /\ UNCHANGED <<processes, current_index, next_pid, returned, issued>>
       ELSE LET pid == next_pid
                pcb == [PcbDefault EXCEPT !.state = SpawnState]
            IN /\ next_pid' = BumpPid(next_pid)
               /\ current_index' = IF IsEmpty(processes) THEN 0 ELSE current_index
               /\ processes' = Append(processes, pcb)
               /\ pm_last' = [CallRecord("spawn", 0, processes, current_index, next_pid)
                                EXCEPT !.ret_pid = pid]
               /\ returned' = Append(returned, pid)
               /\ issued' = [issued EXCEPT ![pid] = IF @ = 0 THEN 1 ELSE 2]
               /\ UNCHANGED panicked

\* iter().position(|pcb| pcb.pid == pid): 0-based index of the first match.
Position(procs, pid) ==
    IF \E i \in 1..Len(procs) : procs[i].pid = pid
    THEN (CHOOSE i \in 1..Len(procs) :
              /\ procs[i].pid = pid
              /\ \A j \in 1..(i - 1) : procs[j].pid # pid) - 1
    ELSE NotFound

\* The condition under which the scan of exit takes an entry.
ScanTakes(state) ==
    /\ state \notin {"Zombie", "Terminated"}
    /\ state = "Ready"

\* The replacement scan of exit: for i in 0..len, idx = (start_idx + i) % len.
RECURSIVE ExitScan(_, _, _)
ExitScan(procs, start_idx, i) ==
    IF i >= Len(procs)
    THEN NotFound
    ELSE LET idx == (start_idx + i) % Len(procs)
         IN IF ScanTakes(procs[idx + 1].state)
            THEN idx
            ELSE ExitScan(procs, start_idx, i + 1)

\* The cursor exit leaves behind when the exiting PCB is at index `index`.
ExitCursor(procs, cur, index) ==
    IF index = cur
    THEN LET start_idx == (cur + 1) % Len(procs)
             found == ExitScan(procs, start_idx, 0)
         IN IF found # NotFound THEN found ELSE 0
    ELSE cur

\* An exit that marks the PCB Terminated.
ExitState_terminated == "Terminated"

\* The state exit stores in the PCB it found.
ExitState == "Zombie"

\* ProcessManager::exit
Exit(pid) ==
    /\ ~panicked
    /\ LET index == Position(processes, pid)
           call == CallRecord("exit", pid, processes, current_index, next_pid)
       IN IF index # NotFound
          THEN LET marked == [processes EXCEPT ![index + 1].state = ExitState]
               IN /\ processes' = marked
                  /\ current_index' = ExitCursor(marked, current_index, index)
                  /\ pm_last' = [call EXCEPT !.ret_ok = TRUE]
          ELSE /\ pm_last' = [call EXCEPT !.ret_ok = FALSE]
               /\ UNCHANGED <<processes, current_index>>
    /\ UNCHANGED <<next_pid, panicked, returned, issued>>
    /\ UNCHANGED <<sched_vars, sw_vars, tm_vars>>

\* A sweep that also removes Blocked entries.
Reapable_blocked(state) == state \in {"Zombie", "Blocked"}

\* A sweep that also removes Terminated entries.
Reapable_terminated(state) == state \in {"Zombie", "Terminated"}

\* The states reap_zombies removes.
Reapable(state) == state = "Zombie"

\* The loop of reap_zombies: for i in (0..len).rev(), i is the 0-based index.
RECURSIVE ReapLoop(_, _, _)
ReapLoop(procs, i, reaped_pids) ==
    IF i < 0
    THEN [procs |-> procs, reaped_pids |-> reaped_pids]
    ELSE IF Reapable(procs[i + 1].state)
         THEN ReapLoop(RemoveAt(procs, i), i - 1, Append(reaped_pids, procs[i + 1].pid))
         ELSE ReapLoop(procs, i - 1, reaped_pids)

\* ProcessManager::reap_zombies
ReapZombies ==
    /\ ~panicked
    /\ LET r == ReapLoop(processes, Len(processes) - 1, <<>>)
       IN /\ processes' = r.procs
          /\ pm_last' = [CallRecord("reap", 0, processes, current_index, next_pid)
                           EXCEPT !.ret_pids = r.reaped_pids]
    /\ UNCHANGED <<current_index, next_pid, panicked, returned, issued>>
    /\ UNCHANGED <<sched_vars, sw_vars, tm_vars>>

\* A filter that leaves out Zombie only.
Active_zombieOnly(state) == state # "Zombie"

\* The states process_count counts as active.
Active(state) == state \notin {"Zombie", "Terminated"}

\* iter().filter(..).count()
RECURSIVE CountActive(_)
CountActive(procs) ==
    IF procs = <<>> THEN 0
    ELSE (IF Active(Head(procs).state) THEN 1 ELSE 0) + CountActive(Tail(procs))

\* ProcessManager::process_count
ProcessCount ==
    /\ ~panicked
    /\ pm_last' = [CallRecord("process_count", 0, processes, current_index, next_pid)
                     EXCEPT !.ret_count = CountActive(processes)]
    /\ UNCHANGED <<processes, current_index, next_pid, panicked, returned, issued>>
    /\ UNCHANGED <<sched_vars, sw_vars, tm_vars>>

\* A get_current that selects the first PCB before reporting it.
GetCurrent_selecting ==
    /\ ~panicked
    /\ current_index' = 0
    /\ pm_last' = [CallRecord("get_current", 0, processes, current_index, next_pid)
                     EXCEPT !.ret_pcb = IF IsEmpty(processes) THEN <<>>
                                        ELSE <<processes[1]>>]
    /\ UNCHANGED <<processes, next_pid, panicked, returned, issued>>
    /\ UNCHANGED <<sched_vars, sw_vars, tm_vars>>

\* ProcessManager::get_current: None (<<>>), Some(pcb) (<<pcb>>), or an
\* index-out-of-bounds panic of processes[current_index].
GetCurrent ==
    /\ ~panicked
    /\ LET call == CallRecord("get_current", 0, processes, current_index, next_pid)
       IN IF IsEmpty(processes)
          THEN /\ pm_last' = call
               /\ UNCHANGED panicked
          ELSE IF current_index < Len(processes)
               THEN /\ pm_last' = [call EXCEPT !.ret_pcb = <<processes[current_index + 1]>>]
                    /\ UNCHANGED panicked
               ELSE /\ pm_last' = call
                    /\ panicked' = TRUE
    /\ UNCHANGED <<processes, current_index, next_pid, returned, issued>>
    /\ UNCHANGED <<sched_vars, sw_vars, tm_vars>>

Next ==
    \/ PmInit
    \/ \E alloc_ok \in BOOLEAN : SpawnKernelThread(alloc_ok)
    \/ \E pid \in 0..MaxPid : Exit(pid)
    \/ ReapZombies
    \/ ProcessCount
    \/ GetCurrent

Spec == Init /\ [][Next]_vars

\* ------------------------------------------------ lifecycle of a PCB
\* The state changes a PCB undergoes outside the manager: dispatch and
\* preemption, blocking and wake-up, and the clean-up of an exited PCB.
\* (Any live state -> Zombie is exit's.)
LifecycleSteps ==
    { <<"Ready", "Running">>, <<"Running", "Ready">>, <<"Running", "Blocked">>,
      <<"Blocked", "Ready">>, <<"Zombie", "Terminated">> }

\* A write of the public `state` field of the PCB at index i.
LifecycleChange(i, st) ==
    /\ ~panicked
    /\ i < Len(processes)
    /\ <<processes[i + 1].state, st>> \in LifecycleSteps
    /\ processes' = [processes EXCEPT ![i + 1].state = st]
    /\ pm_last' = CallRecord("lifecycle", i, processes, current_index, next_pid)
    /\ UNCHANGED <<current_index, next_pid, panicked, returned, issued>>
    /\ UNCHANGED <<sched_vars, sw_vars, tm_vars>>

NextLifecycle ==
    \/ Next
    \/ \E i \in 0..MaxProcs, st \in ProcessState : LifecycleChange(i, st)

\* The manager from new(), its PCBs changing state as the lifecycle allows.
SpecLifecycle == Init /\ [][NextLifecycle]_vars

\* ------------------------------------------------- process.rs operations
\* Vec::contains
Contains(s, x) == \E i \in 1..Len(s) : s[i] = x

\* init_processes: the PCB handed to ProcessManager::init
InitPcb == [ProcessControlBlockDefault EXCEPT !.pid = 1, !.state = "Running"]

\* init_processes -> ProcessManager::init(pcb)
InitProcesses ==
    /\ current_pcb' = <<InitPcb>>
    /\ sc_last' = SchedCall("init", <<InitPcb>>, <<>>, ready_queue, current_pcb)
    /\ base_queue' = ready_queue
    /\ base_pcb' = current_pcb'
    /\ picks' = <<>>
    /\ UNCHANGED <<current_process, ready_queue>>
    /\ UNCHANGED <<pm_vars, sw_vars, tm_vars>>

\* The state RoundRobinScheduler::add stores in the PCB it enqueues.
AddState == "Ready"

\* RoundRobinScheduler::add
SchedAdd(queue, pcb) ==
    LET proc == [pcb EXCEPT !.state = AddState]
    IN IF ~Contains(queue, proc) THEN Append(queue, proc) ELSE queue

\* ProcessManager::add_process
AddProcess(pcb) ==
    /\ Len(ready_queue) < MaxQueue
    /\ ready_queue' = SchedAdd(ready_queue, pcb)
    /\ sc_last' = SchedCall("add_process", <<pcb>>, <<>>, ready_queue, current_pcb)
    /\ base_queue' = ready_queue'
    /\ base_pcb' = current_pcb
    /\ picks' = <<>>
    /\ UNCHANGED <<current_pcb, current_process>>
    /\ UNCHANGED <<pm_vars, sw_vars, tm_vars>>

\* The PCB the queue is searched for: current_process, or a default PCB if None.
SearchKey(cur) == IF cur = <<>> THEN ProcessControlBlockDefault ELSE cur[1]

\* The loop of RoundRobinScheduler::get_next_process: `current` after the search.
RECURSIVE FindCurrent(_, _, _)
FindCurrent(queue, key, i) ==
    IF i >= Len(queue)
    THEN 0
    ELSE IF queue[i + 1] = key THEN i + 1 ELSE FindCurrent(queue, key, i + 1)

\* RoundRobinScheduler::get_next_process: the index removed from a non-empty queue.
NextIdx(queue, cur) == FindCurrent(queue, SearchKey(cur), 0) % Len(queue)

\* ProcessManager::get_next_process (with RoundRobinScheduler::get_next_process
\* and set_current)
GetNextProcess ==
    /\ Len(picks) < MaxPicks
    /\ IF IsEmpty(ready_queue)
       THEN /\ sc_last' = SchedCall("get_next_process", <<>>, <<>>, ready_queue, current_pcb)
            /\ picks' = Append(picks, <<>>)
            /\ UNCHANGED <<current_pcb, current_process, ready_queue>>
       ELSE LET next_idx == NextIdx(ready_queue, current_process)
                proc == ready_queue[next_idx + 1]
            IN /\ ready_queue' = RemoveAt(ready_queue, next_idx)
               /\ current_pcb' = <<proc>>
               /\ current_process' = <<proc>>
               /\ sc_last' = SchedCall("get_next_process", <<>>, <<proc>>,
                                       ready_queue, current_pcb)
               /\ picks' = Append(picks, <<proc>>)
    /\ UNCHANGED <<base_queue, base_pcb>>
    /\ UNCHANGED <<pm_vars, sw_vars, tm_vars>>

\* ProcessManager::get_current of process.rs
SchedGetCurrent ==
    /\ sc_last' = SchedCall("get_current", <<>>, current_pcb, ready_queue, current_pcb)
    /\ UNCHANGED <<current_pcb, current_process, ready_queue, base_queue, base_pcb, picks>>
    /\ UNCHANGED <<pm_vars, sw_vars, tm_vars>>

\* PCBs a caller hands to add_process.
SchedInputs ==
    [pid : 0..MaxSchedPid, state : SchedProcessState, ctx : CtxValues]

NextSched ==
    \/ InitProcesses
    \/ \E pcb \in SchedInputs : AddProcess(pcb)
    \/ GetNextProcess
    \/ SchedGetCurrent

SpecSched == Init /\ [][NextSched]_vars

\* ------------------------------------------- every queue content as input
\* PIDs of a drawn queue content: stride 0 gives every PCB the PID of
\* PcbDefault (what spawn_kernel_thread enqueues), stride 1 gives the PCB at
\* index k the PID k (distinct PIDs in insertion order).
PidStrides == {0, 1}

QueueContents ==
    UNION { { [k \in 1..n |-> [pid |-> (k - 1) * d, state |-> st[k]]] :
                st \in [1..n -> ProcessState], d \in PidStrides } : n \in 0..MaxInitLen }

\* A manager holding an arbitrary queue content with a valid cursor.
InitQueue ==
    /\ processes \in QueueContents
    /\ current_index \in 0..(IF Len(processes) = 0 THEN 0 ELSE Len(processes) - 1)
    /\ next_pid = 1
    /\ panicked = FALSE
    /\ pm_last = CallRecord("new", 0, <<>>, 0, 1)
    /\ returned = <<>>
    /\ issued = [p \in 1..MaxPid |-> 0]
    /\ SchedNew
    /\ SwitchIdle
    /\ TimerBoot

SpecQueue == InitQueue /\ [][Next]_vars

\* ------------------------------------------------ queries on drawn states
\* The process.rs manager after init_processes and add_process calls: the
\* current PCB is absent or the init PCB, the queue holds up to MaxQueue
\* PCBs in the state add gives them.
SchedContents ==
    UNION { [1..n -> [pid : 0..MaxSchedPid, state : {AddState}, ctx : CtxValues]] :
              n \in 0..(MaxQueue - 1) }

InitSchedContents ==
    /\ PmNew
    /\ current_pcb \in {<<>>, <<InitPcb>>}
    /\ current_process = <<>>
    /\ ready_queue \in SchedContents
    /\ sc_last = SchedCall("new", <<>>, <<>>, <<>>, <<>>)
    /\ base_queue = <<>>
    /\ base_pcb = <<>>
    /\ picks = <<>>
    /\ SwitchIdle
    /\ TimerBoot

\* Either manager holds a drawn content, the other is fresh.
InitQueries == InitQueue \/ InitSchedContents

\* The read-only operations of both managers.
NextQueries ==
    \/ ProcessCount
    \/ GetCurrent
    \/ SchedGetCurrent

SpecQueries == InitQueries /\ [][NextQueries]_vars

\* ------------------------------------------------------- timer interrupt
\* TIMER_FREQUENCY_HZ of pit.rs
TimerFrequencyHz == 100

\* initialize of src/idt.rs: interrupts::enable() after the IDT is loaded.
IdtInitialize ==
    /\ int_enabled' = TRUE
    /\ tm_last' = [op |-> "initialize", ret |-> 0]
    /\ UNCHANGED <<handler_ticks, reader_ticks, timer_ticks, irq_trace, irq_handled,
                   in_exit, irq_in_op>>
    /\ UNCHANGED <<pm_vars, sched_vars, sw_vars>>

\* The CPU takes a maskable interrupt: only with IF set; the handler finds
\* the interrupted code where it was.
Delivered ==
    /\ int_enabled
    /\ irq_in_op' = in_exit
    /\ UNCHANGED <<int_enabled, in_exit>>

\* handle_timer_interrupt of pit.rs: EOI, then TICKS += 1 (and a message
\* every TimerFrequencyHz ticks); nothing else is called.
HandleTimerInterrupt ==
    /\ Delivered
    /\ handler_ticks < MaxTicks
    /\ handler_ticks' = handler_ticks + 1
    /\ irq_trace' = <<"eoi", "count">>
                       \o (IF handler_ticks' % TimerFrequencyHz = 0 THEN <<"print">> ELSE <<>>)
    /\ irq_handled' = irq_handled + 1
    /\ tm_last' = [op |-> "handle_timer_interrupt", ret |-> 0]
    /\ UNCHANGED <<reader_ticks, timer_ticks>>
    /\ UNCHANGED <<pm_vars, sched_vars, sw_vars>>

\* timer_interrupt_handler of src/src/idt.rs: a message, then EOI.
TimerInterruptHandler ==
    /\ Delivered
    /\ irq_trace' = <<"print", "eoi">>
    /\ tm_last' = [op |-> "timer_interrupt_handler", ret |-> 0]
    /\ UNCHANGED <<handler_ticks, reader_ticks, timer_ticks, irq_handled>>
    /\ UNCHANGED <<pm_vars, sched_vars, sw_vars>>

\* The counter step of timer_interrupt_handler of src/idt.rs: +1, and back
\* to 0 on a multiple of 100 above 500.
KernelTicks(t) ==
    IF (t + 1) % 100 = 0 /\ t + 1 > 500 THEN 0 ELSE t + 1

\* timer_interrupt_handler of src/idt.rs: counts TIMER_TICKS, then EOI.
KernelTimerInterruptHandler ==
    /\ Delivered
    /\ timer_ticks < MaxTicks
    /\ timer_ticks' = KernelTicks(timer_ticks)
    /\ irq_trace' = <<"count", "eoi">>
    /\ tm_last' = [op |-> "kernel_timer_interrupt_handler", ret |-> 0]
    /\ UNCHANGED <<handler_ticks, reader_ticks, irq_handled>>
    /\ UNCHANGED <<pm_vars, sched_vars, sw_vars>>

\* get_ticks of pit.rs: returns its own static TICKS.
GetTicks ==
    /\ tm_last' = [op |-> "get_ticks", ret |-> reader_ticks]
    /\ UNCHANGED <<handler_ticks, reader_ticks, timer_ticks, irq_trace, irq_handled>>
    /\ UNCHANGED <<int_enabled, in_exit, irq_in_op>>
    /\ UNCHANGED <<pm_vars, sched_vars, sw_vars>>

NextTimer ==
    \/ IdtInitialize
    \/ HandleTimerInterrupt
    \/ TimerInterruptHandler
    \/ KernelTimerInterruptHandler
    \/ GetTicks

SpecTimer == Init /\ [][NextTimer]_vars

\* ------------------------------------- exit interleaved with the timer
\* ProcessManager::exit up to and including `pcb.state = ProcessState::Zombie`.
ExitMark(pid) ==
    /\ ~panicked
    /\ in_exit = <<>>
    /\ Position(processes, pid) # NotFound
    /\ LET index == Position(processes, pid)
       IN /\ processes' = [processes EXCEPT ![index + 1].state = ExitState]
          /\ in_exit' = <<[pid |-> pid, index |-> index, pre |-> processes]>>
    /\ UNCHANGED <<current_index, next_pid, panicked, pm_last, returned, issued>>
    /\ UNCHANGED <<handler_ticks, reader_ticks, timer_ticks, irq_trace, irq_handled, tm_last,
                   int_enabled, irq_in_op>>
    /\ UNCHANGED <<sched_vars, sw_vars>>

\* ProcessManager::exit from `if index == self.scheduler.current_index` to its return.
ExitReschedule ==
    /\ in_exit # <<>>
    /\ current_index' = ExitCursor(processes, current_index, in_exit[1].index)
    /\ pm_last' = [CallRecord("exit", in_exit[1].pid, in_exit[1].pre, current_index, next_pid)
                     EXCEPT !.ret_ok = TRUE]
    /\ in_exit' = <<>>
    /\ UNCHANGED <<processes, next_pid, panicked, returned, issued>>
    /\ UNCHANGED <<handler_ticks, reader_ticks, timer_ticks, irq_trace, irq_handled, tm_last,
                   int_enabled, irq_in_op>>
    /\ UNCHANGED <<sched_vars, sw_vars>>

\* One CPU: a call starts only when no call is in progress; a timer
\* interrupt is taken wherever IF allows.
NextIrq ==
    \/ IdtInitialize
    \/ in_exit = <<>> /\ \E alloc_ok \in BOOLEAN : SpawnKernelThread(alloc_ok)
    \/ \E pid \in 0..MaxPid : ExitMark(pid)
    \/ ExitReschedule
    \/ HandleTimerInterrupt

SpecIrq == Init /\ [][NextIrq]_vars

\* ------------------------------------------------------------------ claims
\* Indices of the PCBs of procs that are in one of the given states.
InStates(procs, sts) == {i \in 1..Len(procs) : procs[i].state \in sts}

\* The last call was exit(p), p was found and was the PCB at the cursor.
ExitedCurrent ==
    /\ pm_last.op = "exit"
    /\ pm_last.ret_ok
    /\ Position(pm_last.pre, pm_last.arg) = pm_last.pre_index

\* C1: whenever the process list is non-empty, exactly one PCB in it is Running.
C1_ExactlyOneRunning ==
    Len(processes) > 0 => Cardinality(InStates(processes, {"Running"})) = 1

\* C2: the PIDs returned by successive spawn calls are strictly increasing
\* (none is returned twice), and exit and reap leave the PID counter alone.
C2_PidsStrictlyIncreasing ==
    /\ \A i, j \in 1..Len(returned) : i < j => returned[i] < returned[j]
    /\ pm_last.op \in {"exit", "reap"} => next_pid = pm_last.pre_next

\* A third PID was just returned by a spawn that followed an exit and a reap.
C2_Witness ==
    /\ pm_last.op = "spawn"
    /\ ~panicked
    /\ Len(returned) >= 3
    /\ Len(processes) < Len(returned)

\* C3: after exit(p) of the PCB at the cursor, with another Ready or Running
\* PCB in the queue, get_current reports a PCB with another pid that is not Zombie.
C3_ExitReplacesCurrent ==
    (/\ ExitedCurrent
     /\ \E j \in InStates(pm_last.pre, {"Ready", "Running"}) : j # pm_last.pre_index + 1)
    => /\ current_index < Len(processes)
       /\ processes[current_index + 1].pid # pm_last.arg
       /\ processes[current_index + 1].state # "Zombie"

\* C4: next-PCB selection never makes a Zombie or Terminated PCB the current
\* entry when a Ready or Running entry exists: neither the replacement scan of
\* exit nor get_next_process of the ready queue.
C4_SelectionSkipsDead ==
    /\ (ExitedCurrent /\ InStates(processes, {"Ready", "Running"}) # {})
         => /\ current_index < Len(processes)
            /\ processes[current_index + 1].state \notin {"Zombie", "Terminated"}
    /\ (sc_last.op = "get_next_process" /\ sc_last.ret # <<>>)
         => sc_last.ret[1].state \notin {"Zombie", "Terminated"}

\* The PCBs the process.rs manager knows: the current one and the queued ones.
KnownPcbs == current_pcb \o ready_queue

\* C5: after a schedule step on a manager that knew at least one PCB, exactly
\* one known PCB is Running and it is the one get_current reports.
C5_OneRunningAfterSchedule ==
    (/\ sc_last.op = "get_next_process"
     /\ sc_last.pre_pcb \o sc_last.pre_queue # <<>>)
    => /\ Cardinality(InStates(KnownPcbs, {"Running"})) = 1
       /\ current_pcb # <<>>
       /\ current_pcb[1].state = "Running"

\* C6: with N queued PCBs, every window of N consecutive schedule steps
\* (steps 1..N, N+1..2N, ...) makes each of the N PCBs current exactly once.
C6_RoundRobinWindows ==
    LET N == Len(base_queue)
    IN N >= 1 =>
         \A w \in 0..MaxPicks :
            (w + 1) * N <= Len(picks) =>
               /\ {picks[k] : k \in (w * N + 1)..((w + 1) * N)}
                     = {<<base_queue[i]>> : i \in 1..N}
               /\ \A j, k \in (w * N + 1)..((w + 1) * N) : j # k => picks[j] # picks[k]

\* PIDs of a sequence of PCBs.
Pids(s) == [i \in 1..Len(s) |-> s[i].pid]

\* C7: after init and two added PCBs with pids 1 and 2, the PCBs current after
\* successive schedule calls follow insertion order 1, 2 and then wrap to the
\* idle PCB that was current first, then 1 again, and so on.
C7_SelectionOrderWraps ==
    (base_pcb = <<InitPcb>> /\ Pids(base_queue) = <<1, 2>>)
    => LET order == Pids(base_pcb \o base_queue)
       IN \A k \in 1..Len(picks) :
             /\ picks[k] # <<>>
             /\ picks[k][1].pid = order[(k % Len(order)) + 1]

\* C8: reap removes exactly the Zombie PCBs, returns their pids (one per
\* removed PCB), shrinks the list by that number and keeps every other PCB,
\* unchanged, in the same relative order.
NotZombie(pcb) == pcb.state # "Zombie"

C8_ReapRemovesExactlyZombies ==
    pm_last.op = "reap" =>
        /\ processes = SelectSeq(pm_last.pre, NotZombie)
        /\ \A p \in 0..(MaxPid + MaxInitLen) :
              Cardinality({i \in 1..Len(pm_last.ret_pids) : pm_last.ret_pids[i] = p})
                = Cardinality({i \in InStates(pm_last.pre, {"Zombie"}) : pm_last.pre[i].pid = p})
        /\ Len(processes) = Len(pm_last.pre) - Len(pm_last.ret_pids)

\* reap on {0: Running, 1: Zombie, 2: Ready} returned [1] and left two PCBs.
C8_Witness ==
    /\ pm_last.op = "reap"
    /\ pm_last.pre = << [pid |-> 0, state |-> "Running"], [pid |-> 1, state |-> "Zombie"],
                        [pid |-> 2, state |-> "Ready"] >>
    /\ pm_last.ret_pids = <<1>>
    /\ Len(processes) = 2

\* C9: switch(old, new) followed immediately by switch(new, old) restores the
\* original context: every saved register has the value it had before.
C9_SwitchRoundTrip ==
    (/\ ~sw_halted
     /\ Len(sw_trace) = 2
     /\ sw_trace[1] # sw_start.running
     /\ sw_trace[2] = sw_start.running)
    => \A r \in SavedRegs : cpu[r] = sw_start.cpu[r]

\* C10: after init() the queue holds exactly the idle PCB (pid 0, Running)
\* and get_current returns it.
C10_InitEnqueuesIdle ==
    pm_last.op = "init" =>
        /\ Len(processes) = 1
        /\ processes[1] = [pid |-> 0, state |-> "Running"]
        /\ current_index = 0

\* C11: spawn appends exactly one PCB at the tail, in state Ready, changes no
\* existing PCB and leaves the cursor alone when the queue was non-empty.
C11_SpawnAppendsReady ==
    (pm_last.op = "spawn" /\ ~panicked) =>
        /\ Len(processes) = Len(pm_last.pre) + 1
        /\ SubSeq(processes, 1, Len(pm_last.pre)) = pm_last.pre
        /\ processes[Len(processes)].state = "Ready"
        /\ pm_last.pre # <<>> => current_index = pm_last.pre_index

\* C12: the PCB a spawn call enqueues carries the pid the call returns, and
\* an exit that finds its pid marks exactly one PCB, one with that pid.
C12_SpawnedPcbCarriesPid ==
    /\ (pm_last.op = "spawn" /\ ~panicked)
         => processes[Len(processes)].pid = pm_last.ret_pid
    /\ (pm_last.op = "exit" /\ pm_last.ret_ok)
         => \E i \in 1..Len(processes) :
               /\ processes[i].pid = pm_last.arg
               /\ processes[i].state = "Zombie"
               /\ \A j \in 1..Len(processes) : j # i => processes[j] = pm_last.pre[j]

ExitedZombie ==
    /\ pm_last.op = "exit"
    /\ Position(pm_last.pre, pm_last.arg) # NotFound
    /\ pm_last.pre[Position(pm_last.pre, pm_last.arg) + 1].state = "Zombie"

\* C14: exit(pid) on a PCB that is already Zombie changes nothing: the PCBs
\* and their order, the cursor and the PID counter are as before the call.
C14_ExitZombieNoOp ==
    ExitedZombie =>
        /\ processes = pm_last.pre
        /\ current_index = pm_last.pre_index
        /\ next_pid = pm_last.pre_next

\* C15: after reap the queue holds no Zombie and no Terminated PCB, and the
\* pid of every PCB that was in either state is in the returned list.
C15_ReapSweepsDead ==
    pm_last.op = "reap" =>
        /\ InStates(processes, {"Zombie", "Terminated"}) = {}
        /\ \A i \in InStates(pm_last.pre, {"Zombie", "Terminated"}) :
              \E k \in 1..Len(pm_last.ret_pids) : pm_last.ret_pids[k] = pm_last.pre[i].pid

\* C16: reap never removes the PCB selected as current: the PCB that was at
\* the cursor before the call is still in the queue after it.
C16_ReapKeepsCurrent ==
    (pm_last.op = "reap" /\ pm_last.pre_index < Len(pm_last.pre)) =>
        \E i \in 1..Len(processes) : processes[i] = pm_last.pre[pm_last.pre_index + 1]

\* C17: whenever the queue is non-empty the cursor is a valid index into
\* it, and get_current never panics on an index out of bounds.
C17_CursorInBounds ==
    /\ ~IsEmpty(processes) => current_index < Len(processes)
    /\ ~(pm_last.op = "get_current" /\ panicked)

\* C18: process_count returns exactly the number of queue entries whose
\* state is neither Zombie nor Terminated.
C18_CountExcludesDead ==
    pm_last.op = "process_count" =>
        pm_last.ret_count =
            Cardinality(InStates(pm_last.pre, ProcessState \ {"Zombie", "Terminated"}))

\* process_count was called on a queue holding a Zombie, a Terminated and a
\* live PCB, and counted the live one only.
C18_Witness ==
    /\ pm_last.op = "process_count"
    /\ InStates(pm_last.pre, {"Zombie"}) # {}
    /\ InStates(pm_last.pre, {"Terminated"}) # {}
    /\ pm_last.ret_count = 1
    /\ processes = pm_last.pre

\* C19: process_count and get_current are read-only: a call leaves the
\* queue contents and order, every PCB's state, the cursor and the PID
\* counter as they were, in the index-based manager and in the process.rs
\* manager alike.
C19_QueriesReadOnly ==
    /\ pm_last.op \in {"process_count", "get_current"} =>
          /\ processes = pm_last.pre
          /\ current_index = pm_last.pre_index
          /\ next_pid = pm_last.pre_next
    /\ sc_last.op = "get_current" =>
          /\ ready_queue = sc_last.pre_queue
          /\ current_pcb = sc_last.pre_pcb

\* get_current reported the PCB at a cursor beyond the first entry, and the
\* process.rs get_current was called as well.
C19_Witness ==
    /\ pm_last.op = "get_current"
    /\ pm_last.pre_index > 0
    /\ pm_last.ret_pcb = <<processes[current_index + 1]>>
    /\ sc_last.op = "get_current"

\* C20: add with a pid that is already in the queue does not return (sc_last
\* records the calls that returned), so the ready queue never holds two PCBs
\* with the same pid.
C20_AddRejectsDuplicatePid ==
    /\ ~(/\ sc_last.op = "add_process"
          /\ \E i \in 1..Len(sc_last.pre_queue) :
                sc_last.pre_queue[i].pid = sc_last.arg[1].pid)
    /\ \A i, j \in 1..Len(ready_queue) :
          i # j => ready_queue[i].pid # ready_queue[j].pid

\* Positions of event e in trace t.
Occurrences(t, e) == {k \in 1..Len(t) : t[k] = e}

\* C21: every timer interrupt handler run calls schedule exactly once, after
\* the EOI to the interrupt controller.
C21_TickSchedulesOnce ==
    irq_trace # <<>> =>
        /\ Cardinality(Occurrences(irq_trace, "schedule")) = 1
        /\ \A k \in Occurrences(irq_trace, "schedule") :
              \E e \in Occurrences(irq_trace, "eoi") : e < k

\* C30: get_ticks returns the number of timer interrupts handled by
\* handle_timer_interrupt since boot.
C30_GetTicksCountsInterrupts ==
    tm_last.op = "get_ticks" => tm_last.ret = irq_handled

\* C22: exit runs with interrupts disabled: no timer interrupt is
\* delivered between its first and its last step.
C22_NoInterruptInsideExit ==
    irq_in_op = <<>>

\* C25: no pid is returned by two spawn calls, init() calls included.
C25_PidsNeverReused ==
    \A p \in 1..MaxPid : issued[p] <= 1

\* The last call was a schedule step that went from one PCB to a different one.
Switched ==
    /\ sc_last.op = "get_next_process"
    /\ sc_last.pre_pcb # <<>>
    /\ sc_last.ret # <<>>
    /\ sc_last.ret # sc_last.pre_pcb

\* C23: when a schedule step switches from a to b, b is marked Running and
\* a is in the ready queue, marked Ready unless it was Blocked or Zombie.
C23_OutgoingReadyIncomingRunning ==
    Switched =>
        /\ current_pcb[1].state = "Running"
        /\ \E i \in 1..Len(ready_queue) :
              /\ ready_queue[i].pid = sc_last.pre_pcb[1].pid
              /\ sc_last.pre_pcb[1].state \notin {"Blocked", "Zombie"}
                    => ready_queue[i].state = "Ready"

\* C24: one switch away from the running unit saves the registers the CPU
\* had at the call into the PCB of that unit, and reaches the restore of
\* the incoming PCB.
C24_SwitchSavesIntoOutgoing ==
    (Len(sw_trace) = 1 /\ sw_trace[1] # sw_start.running) =>
        /\ \A r \in SavedRegs : saved[sw_start.running][r] = sw_start.cpu[r]
        /\ ~sw_halted
        /\ running = sw_trace[1]

\* C26: no scheduler operation moves a Blocked PCB to Ready or Running or
\* selects it: a Blocked PCB handed to add is enqueued Blocked, and
\* get_next_process never returns a Blocked PCB.
C26_BlockedStaysBlocked ==
    /\ (/\ sc_last.op = "add_process"
        /\ sc_last.arg[1].state = "Blocked"
        /\ Len(ready_queue) > Len(sc_last.pre_queue))
       => ready_queue[Len(ready_queue)].state = "Blocked"
    /\ (sc_last.op = "get_next_process" /\ sc_last.ret # <<>>)
       => sc_last.ret[1].state # "Blocked"

\* C27: spawn never panics; its outcome does not depend on a memory
\* allocation. (No spawn of the model has a pid collision: every spawn
\* takes a fresh value of the counter.)
C27_SpawnNeverFails ==
    ~(pm_last.op = "spawn" /\ panicked)

\* The last call was a schedule step taken while no PCB other than the
\* current one could be selected.
ScheduledAlone ==
    /\ sc_last.op = "get_next_process"
    /\ sc_last.pre_pcb # <<>>
    /\ \A i \in 1..Len(sc_last.pre_queue) :
          sc_last.pre_queue[i].pid = sc_last.pre_pcb[1].pid

\* C28: a schedule step with no eligible PCB other than the current one
\* leaves the current PCB and the queue as they were.
C28_AloneNoSwitch ==
    ScheduledAlone =>
        /\ current_pcb = sc_last.pre_pcb
        /\ ready_queue = sc_last.pre_queue

\* Offsets d in 1..Len(procs) at which the PCB d places after index cur, in
\* cyclic queue order, is Ready or Running.
EligibleOffsets(procs, cur) ==
    {d \in 1..Len(procs) : procs[((cur + d) % Len(procs)) + 1].state \in {"Ready", "Running"}}

\* C29: when exit replaces the current PCB and some PCB is eligible, the
\* new cursor is the first eligible entry in cyclic queue order after the
\* old cursor.
C29_FirstEligibleAfterCursor ==
    (ExitedCurrent /\ EligibleOffsets(processes, pm_last.pre_index) # {}) =>
        \E d \in EligibleOffsets(processes, pm_last.pre_index) :
            /\ current_index = (pm_last.pre_index + d) % Len(processes)
            /\ \A e \in EligibleOffsets(processes, pm_last.pre_index) : d <= e

\* 1-based positions of the PCBs of procs that carry pid.
WithPid(procs, pid) == {i \in 1..Len(procs) : procs[i].pid = pid}

\* The PCB a pid names: the first one in queue order that carries it.
Named(procs, pid) == CHOOSE i \in WithPid(procs, pid) : \A j \in WithPid(procs, pid) : i <= j

\* C31: exit(pid) of a PCB that is Ready, Running or Blocked returns true,
\* stores Zombie in that PCB and changes no other PCB, neither the length
\* nor the order of the queue, nor the PID counter; exit of a pid that is
\* not in the queue returns false and changes nothing.
C31_ExitMarksOnlyNamed ==
    pm_last.op = "exit" =>
        /\ (/\ WithPid(pm_last.pre, pm_last.arg) # {}
            /\ pm_last.pre[Named(pm_last.pre, pm_last.arg)].state
                  \in {"Ready", "Running", "Blocked"})
           => /\ pm_last.ret_ok
              /\ processes = [pm_last.pre EXCEPT
                                ![Named(pm_last.pre, pm_last.arg)].state = "Zombie"]
              /\ next_pid = pm_last.pre_next
        /\ WithPid(pm_last.pre, pm_last.arg) = {}
           => /\ ~pm_last.ret_ok
              /\ processes = pm_last.pre
              /\ current_index = pm_last.pre_index
              /\ next_pid = pm_last.pre_next

\* exit(1) marked the Blocked PCB in the middle of a queue of three with
\* distinct pids, and left its neighbours as they were.
C31_Witness ==
    /\ pm_last.op = "exit"
    /\ pm_last.arg = 1
    /\ pm_last.ret_ok
    /\ Len(pm_last.pre) = 3
    /\ pm_last.pre[2] = [pid |-> 1, state |-> "Blocked"]
    /\ processes[2] = [pid |-> 1, state |-> "Zombie"]
    /\ processes[1] = pm_last.pre[1]
    /\ processes[3] = pm_last.pre[3]

\* C32: when the PCB at the cursor is not Zombie, get_current names a PCB
\* with the same pid right before and right after reap_zombies.
C32_ReapKeepsCurrentPid ==
    (/\ pm_last.op = "reap"
     /\ pm_last.pre_index < Len(pm_last.pre)
     /\ pm_last.pre[pm_last.pre_index + 1].state # "Zombie")
    => /\ current_index < Len(processes)
       /\ processes[current_index + 1].pid = pm_last.pre[pm_last.pre_index + 1].pid

\* C33: reap_zombies leaves the value of process_count as it was, a spawn
\* that returns raises it by exactly 1, and exit of a PCB that is neither
\* Zombie nor Terminated lowers it by exactly 1.
C33_CountUnderReapSpawnExit ==
    /\ pm_last.op = "reap" => CountActive(processes) = CountActive(pm_last.pre)
    /\ (pm_last.op = "spawn" /\ ~panicked)
          => CountActive(processes) = CountActive(pm_last.pre) + 1
    /\ (/\ pm_last.op = "exit"
        /\ WithPid(pm_last.pre, pm_last.arg) # {}
        /\ pm_last.pre[Named(pm_last.pre, pm_last.arg)].state \notin {"Zombie", "Terminated"})
          => CountActive(processes) = CountActive(pm_last.pre) - 1

\* reap removed two Zombies around a Blocked PCB and the count stayed 1.
C33_Witness ==
    /\ pm_last.op = "reap"
    /\ Len(pm_last.pre) = 3
    /\ pm_last.pre[1].state = "Zombie"
    /\ pm_last.pre[2].state = "Blocked"
    /\ pm_last.pre[3].state = "Zombie"
    /\ Len(processes) = 1
    /\ CountActive(processes) = 1

\* C34: with no current process set in the scheduler, get_next_process on a
\* non-empty queue returns the head of the queue, removes exactly that
\* entry and makes it the current PCB; it returns None only on an empty
\* queue.
C34_FirstPickIsHead ==
    (sc_last.op = "get_next_process" /\ sc_last.pre_current = <<>>) =>
        /\ sc_last.pre_queue # <<>> =>
              /\ sc_last.ret = <<Head(sc_last.pre_queue)>>
              /\ ready_queue = Tail(sc_last.pre_queue)
              /\ current_pcb = sc_last.ret
        /\ sc_last.ret = <<>> => sc_last.pre_queue = <<>>

====
